---- MODULE Spec2Model ----
(***************************************************************************)
(* OverPass app icon generator (create_icon.py).                           *)
(*                                                                         *)
(* main() creates the icon-set directory and then, for each entry of a     *)
(* fixed list of (size, filename) pairs, composes an icon with             *)
(* create_icon(size) and saves it as a PNG file.                            *)
(*                                                                         *)
(* Arithmetic.  Every exported size is a power of two, so the Python       *)
(* floats size/512 and y/size are exact dyadic fractions, and every        *)
(* product and sum the code forms from them with small integers is exact   *)
(* as well.  int() truncates toward zero and all values are non-negative,  *)
(* so int(k * scale) is (k * size) \div 512 and the gradient channel is    *)
(* (dark*(size-y) + slate*y) \div size.  The decimal factors 0.3, 0.7,     *)
(* 0.15 and 0.55 are not exact floats, but size*factor is never an         *)
(* integer for a power of two, so int(size * 0.3) is (size*3) \div 10 and  *)
(* so on; 0.25, 0.75 and 0.5 are exact.                                    *)
(***************************************************************************)
EXTENDS Integers, Sequences, FiniteSets

VARIABLES
    fontSystem,      \* "/System/Library/Fonts/Supplemental/Arial Bold.ttf" can be loaded
    fontLibrary,     \* "/Library/Fonts/Arial Bold.ttf" can be loaded
    zeroSizeRaises,  \* the imaging library refuses a font size of 0 (version dependent)
    dirExists,       \* the icon-set directory exists
    files,           \* the directory: filename -> file content
    pc,              \* position of main(): "start", "loop", "done", "failed"
    idx,             \* 1-based index of the next entry of sizes
    out,             \* lines printed to standard output by the current run
    run,             \* number of the current invocation of main()
    startFiles       \* the directory's content when the current run began

vars == <<fontSystem, fontLibrary, zeroSizeRaises, dirExists, files, pc, idx,
          out, run, startFiles>>

\* Number of invocations of main() that are explored.
MaxRuns == 2

----------------------------------------------------------------------------
\* Colour palette

SAPPHIRE_DARK == <<38, 43, 64>>
SAPPHIRE_SLATE == <<44, 68, 77>>
SAPPHIRE_NAVY == <<6, 69, 127>>
SAPPHIRE_ROYAL == <<4, 116, 196>>
SAPPHIRE_DUSTY == <<83, 121, 174>>
SAPPHIRE_LIGHT == <<168, 196, 236>>
WHITE == <<255, 255, 255>>

\* scale = size / 512
REF_SIZE == 512

\* int(k * scale)
Scaled(k, size) == (k * size) \div REF_SIZE

\* int(size * (num/den)) for the decimal factors 0.3, 0.7, 0.15, 0.25, 0.55, 0.75
Frac(size, num, den) == (size * num) \div den

Min(a, b) == IF a < b THEN a ELSE b

----------------------------------------------------------------------------
\* Fonts.  A font is a record; raised = TRUE stands for the exception that a
\* failed ImageFont.truetype call throws.

FONT_SYSTEM == "/System/Library/Fonts/Supplemental/Arial Bold.ttf"
FONT_LIBRARY == "/Library/Fonts/Arial Bold.ttf"

FontRaised == [raised |-> TRUE, path |-> "", size |-> 0]

\* ImageFont.truetype(path, size): raises when the file cannot be loaded.  A
\* size of 0 is refused by current versions of the imaging library and
\* accepted by older ones; zeroSizeRaises fixes which one is installed.
truetype(path, size) ==
    LET present == IF path = FONT_SYSTEM THEN fontSystem ELSE fontLibrary
    IN  IF ~present THEN FontRaised
        ELSE IF size <= 0 /\ zeroSizeRaises THEN FontRaised
        ELSE [raised |-> FALSE, path |-> path, size |-> size]

\* ImageFont.load_default(): the built-in font; it takes no size.
load_default == [raised |-> FALSE, path |-> "default", size |-> 0]

\* Faulty variant: the last fallback is missing, the exception escapes.
TitleFontNoDefault(size) ==
    LET font_size == Scaled(80, size)
        f1 == truetype(FONT_SYSTEM, font_size)
        f2 == truetype(FONT_LIBRARY, font_size)
    IN  IF ~f1.raised THEN f1 ELSE f2

\* The try/except chain that resolves the title font.
TitleFont(size) ==
    LET font_size == Scaled(80, size)
        f1 == truetype(FONT_SYSTEM, font_size)
        f2 == truetype(FONT_LIBRARY, font_size)
    IN  IF ~f1.raised THEN f1
        ELSE IF ~f2.raised THEN f2
        ELSE load_default

\* Faulty variant: the badge label always uses the title font.
LetterFontAlwaysTitle(size, font) == font

\* The try/except that resolves a badge's label font; size is the badge side.
LetterFont(size, font) ==
    LET letter_font_size == Frac(size, 1, 2)
        f == truetype(FONT_SYSTEM, letter_font_size)
    IN  IF f.raised THEN font ELSE f

----------------------------------------------------------------------------
\* Background gradient

\* Python's round(num / den) for num >= 0, den > 0: to the nearest integer,
\* a tie to the even one.
PyRound(num, den) ==
    LET q == num \div den
        r2 == 2 * (num % den)
    IN  IF r2 < den THEN q
        ELSE IF r2 > den THEN q + 1
        ELSE IF q % 2 = 0 THEN q ELSE q + 1

\* Faulty variant: the blend is rounded to the nearest integer instead of truncated.
GradientChannelRounded(dark, slate, size, y) ==
    PyRound(dark * (size - y) + slate * y, size)

\* Faulty variant: the two colours are exchanged.
GradientChannelSwapped(dark, slate, size, y) ==
    (slate * (size - y) + dark * y) \div size

\* int(DARK[c] * (1 - ratio) + SLATE[c] * ratio), ratio = y / size
GradientChannel(dark, slate, size, y) ==
    (dark * (size - y) + slate * y) \div size

\* The fill of row y, and the rows 0 .. size-1 (row y is element y + 1).
GradientRow(size, y) ==
    [c \in 1..3 |-> GradientChannel(SAPPHIRE_DARK[c], SAPPHIRE_SLATE[c], size, y)]

Gradient(size) == [r \in 1..size |-> GradientRow(size, r - 1)]

----------------------------------------------------------------------------
\* Shapes.  A box is <<x0, y0, x1, y1>>, the list given to rounded_rectangle.

\* Faulty variant: the pillar height is not scaled.
PillarBoxFixedHeight(size, pillar_x) ==
    LET pillar_width == Scaled(16, size)
        pillar_height == 120
        pillar_y == Frac(size, 7, 10)
    IN  <<pillar_x - pillar_width \div 2, pillar_y - pillar_height,
          pillar_x + pillar_width \div 2, pillar_y>>

PillarBox(size, pillar_x) ==
    LET pillar_width == Scaled(16, size)
        pillar_height == Scaled(120, size)
        pillar_y == Frac(size, 7, 10)
    IN  <<pillar_x - pillar_width \div 2, pillar_y - pillar_height,
          pillar_x + pillar_width \div 2, pillar_y>>

Pillar(size, pillar_x) ==
    [box |-> PillarBox(size, pillar_x), radius |-> Scaled(4, size),
     fill |-> SAPPHIRE_NAVY, outline |-> SAPPHIRE_ROYAL, width |-> Scaled(2, size)]

Deck(size) ==
    LET deck_width == Scaled(280, size)
        deck_height == Scaled(24, size)
        deck_x == (size - deck_width) \div 2
        deck_y == Frac(size, 7, 10) - Scaled(120, size)
    IN  [box |-> <<deck_x, deck_y - deck_height \div 2,
                   deck_x + deck_width, deck_y + deck_height \div 2>>,
         radius |-> Scaled(8, size),
         fill |-> SAPPHIRE_NAVY, outline |-> SAPPHIRE_ROYAL, width |-> Scaled(2, size)]

\* draw_rounded_key; iconSize stands for scale = iconSize / 512.  The label's
\* position follows from the measured text box and is left to the library.
draw_rounded_key(x, y, size, radius, letter, color, font, iconSize) ==
    LET shadow_offset == Scaled(2, iconSize)
    IN  [x |-> x, y |-> y,
         shadow |-> <<x - size \div 2 + shadow_offset, y - size \div 2 + shadow_offset,
                      x + size \div 2 + shadow_offset, y + size \div 2 + shadow_offset>>,
         box |-> <<x - size \div 2, y - size \div 2, x + size \div 2, y + size \div 2>>,
         radius |-> radius,
         fill |-> color,
         outline |-> [c \in 1..3 |-> Min(255, color[c] + 40)],
         width |-> Scaled(2, iconSize),
         letter |-> letter,
         letter_font |-> LetterFont(size, font),
         letter_fill |-> WHITE]

\* The glyphs U+2191, U+2193, U+2190, U+2192 are written by name.
keys_top == <<<<"W", SAPPHIRE_ROYAL>>, <<"A", SAPPHIRE_DUSTY>>,
              <<"S", SAPPHIRE_ROYAL>>, <<"D", SAPPHIRE_DUSTY>>>>
keys_bottom == <<<<"UP", SAPPHIRE_DUSTY>>, <<"DOWN", SAPPHIRE_ROYAL>>,
                 <<"LEFT", SAPPHIRE_DUSTY>>, <<"RIGHT", SAPPHIRE_ROYAL>>>>

\* Faulty variant: consecutive badges are spaced by the badge side, int(28 * scale).
KeyXTight(start_x, i, size) == start_x + i * Scaled(28, size)

\* x = start_x + i * int(40 * scale), i counted from 0
KeyX(start_x, i, size) == start_x + i * Scaled(40, size)

\* One loop over a key group: the badges in drawing order.
KeyGroup(keys, start_x, start_y, font, size) ==
    [k \in 1..Len(keys) |->
        draw_rounded_key(KeyX(start_x, k - 1, size), start_y, Scaled(28, size),
                         Scaled(6, size), keys[k][1], keys[k][2], font, size)]

\* create_icon(size).  The result carries raised = TRUE when an exception
\* leaves the function.
create_icon(size) ==
    LET font == TitleFont(size)
    IN  IF font.raised THEN [raised |-> TRUE]
        ELSE [raised |-> FALSE,
              width |-> size, height |-> size,
              gradient |-> Gradient(size),
              left_pillar |-> Pillar(size, Frac(size, 3, 10)),
              right_pillar |-> Pillar(size, Frac(size, 7, 10)),
              deck |-> Deck(size),
              title |-> [text |-> "OP", font |-> font,
                         shadow_offset |-> Scaled(2, size), fill |-> SAPPHIRE_LIGHT],
              badges |-> KeyGroup(keys_top, Frac(size, 15, 100), Frac(size, 25, 100),
                                  font, size)
                         \o KeyGroup(keys_bottom, Frac(size, 55, 100),
                                     Frac(size, 75, 100), font, size)]

----------------------------------------------------------------------------
\* main()

\* Faulty variant: the last entry of the list is missing.
sizesShort ==
    << [size |-> 16, filename |-> "icon_16x16.png"],
       [size |-> 32, filename |-> "icon_16x16@2x.png"],
       [size |-> 32, filename |-> "icon_32x32.png"],
       [size |-> 64, filename |-> "icon_32x32@2x.png"],
       [size |-> 128, filename |-> "icon_128x128.png"],
       [size |-> 256, filename |-> "icon_128x128@2x.png"],
       [size |-> 256, filename |-> "icon_256x256.png"],
       [size |-> 512, filename |-> "icon_256x256@2x.png"],
       [size |-> 512, filename |-> "icon_512x512.png"] >>

sizes ==
    << [size |-> 16, filename |-> "icon_16x16.png"],
       [size |-> 32, filename |-> "icon_16x16@2x.png"],
       [size |-> 32, filename |-> "icon_32x32.png"],
       [size |-> 64, filename |-> "icon_32x32@2x.png"],
       [size |-> 128, filename |-> "icon_128x128.png"],
       [size |-> 256, filename |-> "icon_128x128@2x.png"],
       [size |-> 256, filename |-> "icon_256x256.png"],
       [size |-> 512, filename |-> "icon_256x256@2x.png"],
       [size |-> 512, filename |-> "icon_512x512.png"],
       [size |-> 1024, filename |-> "icon_512x512@2x.png"] >>

\* A file's content: a PNG written by Image.save, a file that a failed save
\* left incomplete, or a file that something else put in the directory.
\* Faulty variant: the encoder embeds the number of the run, as a timestamp would.
PngStamped(icon) == [kind |-> "png", image |-> icon, stamp |-> run]

Png(icon) == [kind |-> "png", image |-> icon]
PartialFile == [kind |-> "partial"]
ForeignFile == [kind |-> "foreign"]

NoFiles == [n \in {} |-> ForeignFile]

\* The directory before the first run: absent, empty, or holding a
\* Contents.json and an icon_16x16.png from elsewhere.
InitialDirs ==
    { [exists |-> FALSE, files |-> NoFiles],
      [exists |-> TRUE, files |-> NoFiles],
      [exists |-> TRUE,
       files |-> [n \in {"Contents.json", "icon_16x16.png"} |-> ForeignFile]] }

\* Faulty variant: every icon is saved under the same filename.
SaveFirstName(fs, filename, icon) ==
    [n \in DOMAIN fs \cup {"icon_16x16.png"} |->
        IF n = "icon_16x16.png" THEN Png(icon) ELSE fs[n]]

\* icon.save(os.path.join(icon_dir, filename), "PNG"): creates or overwrites.
Save(fs, filename, icon) ==
    [n \in DOMAIN fs \cup {filename} |-> IF n = filename THEN Png(icon) ELSE fs[n]]

\* Lines of standard output.
Line(kind, filename, size) == [kind |-> kind, filename |-> filename, size |-> size]
GeneratingLine == Line("Generating", "", 0)
CreatingLine(e) == Line("Creating", e.filename, e.size)
SavedLine(e) == Line("Saved", e.filename, e.size)
CompletionLines ==
    <<Line("AllGenerated", "", 0), Line("SavedTo", "", 0), Line("NextStep", "", 0)>>

Init ==
    /\ fontSystem \in BOOLEAN
    /\ fontLibrary \in BOOLEAN
    /\ zeroSizeRaises \in BOOLEAN
    /\ \E d \in InitialDirs :
          /\ dirExists = d.exists
          /\ files = d.files
          /\ startFiles = d.files
    /\ pc = "start"
    /\ idx = 1
    /\ out = <<>>
    /\ run = 1

\* os.makedirs(icon_dir, exist_ok=True) and the first print.
MakeDirs ==
    /\ pc = "start"
    /\ dirExists' = TRUE
    /\ out' = Append(out, GeneratingLine)
    /\ pc' = "loop"
    /\ idx' = 1
    /\ UNCHANGED <<fontSystem, fontLibrary, zeroSizeRaises, files, run, startFiles>>

\* os.makedirs raises (the directory cannot be created); nothing catches it.
MakeDirsFails ==
    /\ pc = "start"
    /\ ~dirExists
    /\ pc' = "failed"
    /\ UNCHANGED <<fontSystem, fontLibrary, zeroSizeRaises, dirExists, files, idx,
                   out, run, startFiles>>

\* One iteration of the loop: print, compose, save, print.
ExportIcon ==
    /\ pc = "loop"
    /\ idx <= Len(sizes)
    /\ LET e == sizes[idx]
           icon == create_icon(e.size)
       IN  IF icon.raised
           THEN /\ pc' = "failed"
                /\ out' = Append(out, CreatingLine(e))
                /\ UNCHANGED <<files, idx>>
           ELSE /\ files' = Save(files, e.filename, icon)
                /\ out' = out \o <<CreatingLine(e), SavedLine(e)>>
                /\ idx' = idx + 1
                /\ pc' = "loop"
    /\ UNCHANGED <<fontSystem, fontLibrary, zeroSizeRaises, dirExists, run, startFiles>>

\* Faulty variant: the exception of icon.save is swallowed and the loop goes on.
ExportIconSaveFailsCaught ==
    /\ pc = "loop"
    /\ idx <= Len(sizes)
    /\ out' = Append(out, CreatingLine(sizes[idx]))
    /\ idx' = idx + 1
    /\ UNCHANGED <<fontSystem, fontLibrary, zeroSizeRaises, dirExists, files, pc, run,
                   startFiles>>

\* One iteration of the loop in which icon.save raises; nothing catches it.
\* The file being written is left as it was or left incomplete.
ExportIconSaveFails ==
    /\ pc = "loop"
    /\ idx <= Len(sizes)
    /\ LET e == sizes[idx]
       IN  /\ ~create_icon(e.size).raised
           /\ out' = Append(out, CreatingLine(e))
           /\ \/ files' = files
              \/ files' = [n \in DOMAIN files \cup {e.filename} |->
                              IF n = e.filename THEN PartialFile ELSE files[n]]
    /\ pc' = "failed"
    /\ UNCHANGED <<fontSystem, fontLibrary, zeroSizeRaises, dirExists, idx, run,
                   startFiles>>

\* The three prints after the loop.
Finish ==
    /\ pc = "loop"
    /\ idx = Len(sizes) + 1
    /\ out' = out \o CompletionLines
    /\ pc' = "done"
    /\ UNCHANGED <<fontSystem, fontLibrary, zeroSizeRaises, dirExists, files, idx,
                   run, startFiles>>

\* The script is invoked again on the same directory after a completed run.
Rerun ==
    /\ pc = "done"
    /\ run < MaxRuns
    /\ run' = run + 1
    /\ pc' = "start"
    /\ idx' = 1
    /\ out' = <<>>
    /\ startFiles' = files
    /\ UNCHANGED <<fontSystem, fontLibrary, zeroSizeRaises, dirExists, files>>

Next ==
    \/ MakeDirs
    \/ MakeDirsFails
    \/ ExportIcon
    \/ ExportIconSaveFails
    \/ Finish
    \/ Rerun

Spec == Init /\ [][Next]_vars

----------------------------------------------------------------------------
\* Properties

\* The ten filenames and their pixel sizes, as the interface lists them.
ExpectedNames ==
    <<"icon_16x16.png", "icon_16x16@2x.png", "icon_32x32.png", "icon_32x32@2x.png",
      "icon_128x128.png", "icon_128x128@2x.png", "icon_256x256.png",
      "icon_256x256@2x.png", "icon_512x512.png", "icon_512x512@2x.png">>
ExpectedDims == <<16, 32, 32, 64, 128, 256, 256, 512, 512, 1024>>

Range(f) == {f[i] : i \in DOMAIN f}
Abs(n) == IF n < 0 THEN -n ELSE n

\* The PNG files of the directory and their images.
PngNames == {n \in DOMAIN files : files[n].kind = "png"}
Images == {files[n].image : n \in PngNames}

\* The lines of one kind printed so far by the current run, in order.
LinesOf(kind) == SelectSeq(out, LAMBDA l : l.kind = kind)

\* C1: after main() has run to completion from an output directory that was
\* empty or absent, the directory holds exactly the ten listed filenames.
C1_Completeness ==
    (pc = "done" /\ DOMAIN startFiles = {}) => DOMAIN files = Range(ExpectedNames)

C1_Witness ==
    pc = "done" /\ DOMAIN startFiles = {} /\ run = 1 /\ Cardinality(DOMAIN files) = 10

\* What the current run has composed and saved is a prefix of the list.
C2_PrefixInOrder ==
    LET saved == LinesOf("Saved")
        creating == LinesOf("Creating")
    IN  /\ Len(saved) <= Len(ExpectedNames)
        /\ Len(saved) <= Len(creating)
        /\ Len(creating) <= Len(saved) + 1
        /\ \A k \in 1..Len(creating) : creating[k].filename = ExpectedNames[k]
        /\ \A k \in 1..Len(saved) :
              /\ saved[k].filename = ExpectedNames[k]
              /\ ExpectedNames[k] \in PngNames
              /\ files[ExpectedNames[k]].image.width = ExpectedDims[k]
              /\ files[ExpectedNames[k]].image.height = ExpectedDims[k]

\* A step changes at most the file that is next in the list.
C2_OneAtATime ==
    LET k == Len(LinesOf("Saved"))
    IN  \/ files' = files
        \/ /\ k < Len(ExpectedNames)
           /\ \A n \in (DOMAIN files \cup DOMAIN files') \ {ExpectedNames[k + 1]} :
                 n \in DOMAIN files /\ n \in DOMAIN files' /\ files'[n] = files[n]

\* C2: the files are composed and written one after another in the order of
\* the list, file k+1 never before file k, and every file written holds an
\* image whose width and height are the size paired with its filename.
C2_Sequential == []C2_PrefixInOrder /\ [][C2_OneAtATime]_vars

C2_Witness ==
    /\ Len(LinesOf("Saved")) = 10
    /\ files["icon_512x512@2x.png"].kind = "png"
    /\ files["icon_512x512@2x.png"].image.width = 1024

\* No line follows a file that was announced and not saved; after a failure
\* at the k-th file exactly the files before it have been written.
C3_AbortState ==
    LET creating == LinesOf("Creating")
        k == Len(creating)
    IN  /\ \A i \in 1..(Len(out) - 1) :
              out[i].kind = "Creating" => out[i + 1].kind = "Saved"
        /\ pc = "failed" =>
              /\ LinesOf("AllGenerated") = <<>>
              /\ Len(LinesOf("Saved")) = (IF k = 0 THEN 0 ELSE k - 1)
              /\ k = 0 => (files = startFiles /\ out = <<>>)
              /\ \A j \in 1..Len(ExpectedNames) :
                    /\ j < k =>
                          /\ ExpectedNames[j] \in PngNames
                          /\ files[ExpectedNames[j]].image.width = ExpectedDims[j]
                    /\ j > k =>
                          /\ (ExpectedNames[j] \in DOMAIN files)
                                = (ExpectedNames[j] \in DOMAIN startFiles)
                          /\ ExpectedNames[j] \in DOMAIN files =>
                                files[ExpectedNames[j]] = startFiles[ExpectedNames[j]]

\* C3: when creating the directory or writing the k-th file fails, the run
\* stops there: nothing is printed or written after the failure, the files
\* 1..k-1 are in place as written, the files after the k-th are neither
\* composed nor touched, and the completion message is not printed.
C3_Abort ==
    /\ []C3_AbortState
    /\ [][pc = "failed" => (pc' = "failed" /\ files' = files /\ out' = out)]_vars

C3_Witness ==
    /\ pc = "failed"
    /\ Len(LinesOf("Creating")) = 4
    /\ "icon_32x32.png" \in PngNames
    /\ "icon_128x128.png" \notin DOMAIN files

\* The title font the fallback order gives, and an icon that carries it.
C4_ExpectedTitleFont(size) ==
    IF fontSystem
        THEN [raised |-> FALSE, path |-> FONT_SYSTEM, size |-> (80 * size) \div 512]
    ELSE IF fontLibrary
        THEN [raised |-> FALSE, path |-> FONT_LIBRARY, size |-> (80 * size) \div 512]
    ELSE [raised |-> FALSE, path |-> "default", size |-> 0]

C4_Resolved(icon, size) ==
    /\ ~icon.raised
    /\ icon.width = size /\ icon.height = size
    /\ icon.title.font = C4_ExpectedTitleFont(size)
    /\ \A b \in 1..Len(icon.badges) :
          /\ ~icon.badges[b].letter_font.raised
          /\ ~fontSystem => icon.badges[b].letter_font = C4_ExpectedTitleFont(size)

\* C4: for every exported size and every presence or absence of the two font
\* files, create_icon returns an image; the title font is the first path's
\* font, else the second path's, else the default font; a badge whose own font
\* cannot be loaded uses the title font.
C4_FontFallback ==
    /\ (pc = "loop" /\ idx <= Len(ExpectedDims)) =>
          C4_Resolved(create_icon(ExpectedDims[idx]), ExpectedDims[idx])
    /\ \A n \in PngNames : C4_Resolved(files[n].image, files[n].image.width)

C4_Witness ==
    /\ ~fontSystem /\ ~fontLibrary
    /\ pc = "done"
    /\ \A n \in DOMAIN files :
          /\ files[n].kind = "png"
          /\ files[n].image.title.font.path = "default"
          /\ files[n].image.badges[5].letter_font.path = "default"

\* Row 0 and the last row of an image's gradient, and its monotonicity.
GradientStartsDark(img) == img.gradient[1] = <<38, 43, 64>>

GradientEndsNearSlate(img, tolerance) ==
    \A c \in 1..3 : Abs(img.gradient[img.height][c] - <<44, 68, 77>>[c]) <= tolerance

GradientMonotone(img) ==
    \A r \in 1..(img.height - 1) :
        \A c \in 1..3 : img.gradient[r][c] <= img.gradient[r + 1][c]

\* C5 as stated: row 0 is the dark colour, the last row is within 1 of the
\* slate colour in every channel, and every channel is non-decreasing.
C5_Original ==
    \A img \in Images :
        /\ GradientStartsDark(img)
        /\ GradientEndsNearSlate(img, 1)
        /\ GradientMonotone(img)

\* C5 amended: row 0 is the dark colour, the last row is within 1 of the slate
\* colour in every channel at sizes 32 to 1024 and within 2 at size 16, and
\* every channel is non-decreasing from row 0 to the last row.
C5_Amended ==
    \A img \in Images :
        /\ GradientStartsDark(img)
        /\ GradientEndsNearSlate(img, IF img.height >= 32 THEN 1 ELSE 2)
        /\ GradientMonotone(img)

C5_Witness ==
    /\ pc = "done"
    /\ \E img \in Images : img.height = 16 /\ img.gradient[16] = <<43, 66, 76>>
    /\ \E img \in Images : img.height = 1024 /\ img.gradient[1024] = <<43, 67, 76>>

\* Width and height of a box <<x0, y0, x1, y1>>, as the code takes them from
\* a text box: right - left and bottom - top.
BoxWidth(box) == box[3] - box[1]
BoxHeight(box) == box[4] - box[2]

\* The boxes of an image's shapes: the two pillars, the deck, the eight badges.
ShapeBoxes(img) ==
    <<img.left_pillar.box, img.right_pillar.box, img.deck.box>>
        \o [b \in 1..Len(img.badges) |-> img.badges[b].box]

ScalesWithin(small, large, tolerance) ==
    /\ Len(ShapeBoxes(small)) = 11
    /\ Len(ShapeBoxes(large)) = 11
    /\ \A i \in 1..11 :
          /\ Abs(BoxWidth(ShapeBoxes(large)[i]) - 2 * BoxWidth(ShapeBoxes(small)[i]))
                <= tolerance
          /\ Abs(BoxHeight(ShapeBoxes(large)[i]) - 2 * BoxHeight(ShapeBoxes(small)[i]))
                <= tolerance

PillarWidthDoubles512To1024 ==
    \A small, large \in Images :
        (small.width = 512 /\ large.width = 1024) =>
            BoxWidth(large.left_pillar.box) = 2 * BoxWidth(small.left_pillar.box)

\* C6 as stated: between a size and its double, the width and the height of
\* every shape's box differ from twice the smaller one's by at most 1 pixel.
C6_Original ==
    /\ \A small, large \in Images :
          large.width = 2 * small.width => ScalesWithin(small, large, 1)
    /\ PillarWidthDoubles512To1024

\* C6 amended: between a size and its double, the width and the height of
\* every shape's box differ from twice the smaller one's by at most 2 pixels,
\* and the pillar width at 1024 is exactly twice the pillar width at 512.
C6_Amended ==
    /\ \A small, large \in Images :
          large.width = 2 * small.width => ScalesWithin(small, large, 2)
    /\ PillarWidthDoubles512To1024

C6_Witness ==
    /\ pc = "done"
    /\ \E small, large \in Images :
          /\ small.width = 64 /\ large.width = 128
          /\ BoxWidth(small.badges[1].box) = 2
          /\ BoxWidth(large.badges[1].box) = 6
    /\ \E small, large \in Images :
          /\ small.width = 512 /\ large.width = 1024
          /\ BoxWidth(small.left_pillar.box) = 16
          /\ BoxWidth(large.left_pillar.box) = 32

\* C7: every icon has exactly 8 badges, in drawing order W, A, S, D with fills
\* royal, dusty, royal, dusty and then the up, down, left, right arrows with
\* fills dusty, royal, dusty, royal; within a group each badge centre lies
\* int(40 * scale) to the right of the previous one at the same height.
C7_BadgeOrder ==
    \A img \in Images :
        /\ Len(img.badges) = 8
        /\ [b \in 1..8 |-> img.badges[b].letter]
              = <<"W", "A", "S", "D", "UP", "DOWN", "LEFT", "RIGHT">>
        /\ [b \in 1..8 |-> img.badges[b].fill]
              = << <<4, 116, 196>>, <<83, 121, 174>>, <<4, 116, 196>>, <<83, 121, 174>>,
                   <<83, 121, 174>>, <<4, 116, 196>>, <<83, 121, 174>>, <<4, 116, 196>> >>
        /\ \A b \in {1, 2, 3, 5, 6, 7} :
              /\ img.badges[b + 1].x - img.badges[b].x = (40 * img.width) \div 512
              /\ img.badges[b + 1].y = img.badges[b].y

C7_Witness ==
    /\ pc = "done"
    /\ \E img \in Images :
          /\ img.width = 1024
          /\ img.badges[2].x - img.badges[1].x = 80
          /\ img.badges[8].letter = "RIGHT"
    /\ \E img \in Images : img.width = 16 /\ img.badges[2].x - img.badges[1].x = 1

C9_Original ==
    \A img \in Images :
        \A r \in 1..img.height :
            \A c \in 1..3 :
                img.gradient[r][c]
                    = PyRound(<<38, 43, 64>>[c] * (img.height - (r - 1))
                                  + <<44, 68, 77>>[c] * (r - 1), img.height)

\* C9 amended: every channel of every gradient row is the blend
\* dark*(1-ratio) + slate*ratio, ratio = y/size, truncated to an integer: the
\* largest integer that does not exceed the blend.
C9_Amended ==
    \A img \in Images :
        \A r \in 1..img.height :
            \A c \in 1..3 :
                LET blend == <<38, 43, 64>>[c] * (img.height - (r - 1))
                                + <<44, 68, 77>>[c] * (r - 1)
                IN  /\ img.gradient[r][c] * img.height <= blend
                    /\ blend < (img.gradient[r][c] + 1) * img.height

C9_Witness ==
    /\ pc = "done"
    /\ \E img \in Images : img.height = 16 /\ img.gradient[16][1] = 43

\* The bold font at 50% of the badge side, the badge side being int(28*scale).
BoldLetterFont(img) ==
    [raised |-> FALSE, path |-> FONT_SYSTEM, size |-> ((28 * img.width) \div 512) \div 2]

\* C10 as stated: a badge label has the title font only if the preferred font
\* file is unavailable; when it is available every badge label of every
\* exported size has the bold font at 50% of the badge side.
C10_Original ==
    \A img \in Images :
        \A b \in 1..Len(img.badges) :
            /\ img.badges[b].letter_font = img.title.font => ~fontSystem
            /\ fontSystem => img.badges[b].letter_font = BoldLetterFont(img)

\* C10 amended: when the preferred font file is available, every badge label
\* of the exported sizes 64 to 1024 has the bold font at int(int(28*scale)*0.5),
\* which is at least 1 there, and not the title font; at the sizes 16 and 32
\* that size is 0 and the label has the bold font at 0 or, when the library
\* refuses a size of 0, the title font.  When the file is unavailable every
\* label has the title font.
C10_Amended ==
    \A img \in Images :
        \A b \in 1..Len(img.badges) :
            /\ (fontSystem /\ img.width >= 64) =>
                  /\ img.badges[b].letter_font = BoldLetterFont(img)
                  /\ img.badges[b].letter_font.size >= 1
                  /\ img.badges[b].letter_font # img.title.font
            /\ (fontSystem /\ img.width < 64) =>
                  /\ BoldLetterFont(img).size = 0
                  /\ img.badges[b].letter_font
                        = (IF zeroSizeRaises THEN img.title.font ELSE BoldLetterFont(img))
            /\ ~fontSystem => img.badges[b].letter_font = img.title.font

C10_Witness ==
    /\ fontSystem /\ zeroSizeRaises
    /\ pc = "done"
    /\ \E img \in Images :
          img.width = 16 /\ img.badges[1].letter_font = img.title.font
    /\ \E img \in Images :
          img.width = 64 /\ img.badges[1].letter_font.size = 1

====
